---------------------------- MODULE Spec2Model ----------------------------
(***************************************************************************)
(* Model of the blocking Octo-SPI driver for the Macronix MX25UW25645G     *)
(* serial NOR flash (src/src/mx25uw25645g.rs).                             *)
(*                                                                         *)
(* The driver is a sequential program.  One step of the model is one call  *)
(* of the driver into the transport (one bus transaction), or one piece of *)
(* straight-line code between two such calls.  `pc` is the position of the *)
(* driver in its code, `bus` is the list of transactions the current       *)
(* operation has handed to the transport so far.  The flash device and the *)
(* transport are the environment: the device holds a write-in-progress     *)
(* state and the Configuration-2 registers, the transport may fail any     *)
(* call.                                                                   *)
(***************************************************************************)
EXTENDS Integers, Sequences, FiniteSets, TLC

(***************************************************************************)
(* Bounds of the model.                                                    *)
(***************************************************************************)
\* Longest buffer handed to write_memory / read_memory.
MaxLen == 513
\* Status reads that report write-in-progress set, per polling loop.
MaxPolls == 2

(***************************************************************************)
(* Settings of the chip (lines 26-37).                                     *)
(***************************************************************************)
MEMORY_PAGE_SIZE == 256
DUMMY_CYCLES_REG_OCTAL_DTR == 4

(***************************************************************************)
(* u32 values.  A u32 is kept as its upper 24 bits `hi` and lower 8 bits   *)
(* `lo` (value = hi * 256 + lo), so that the whole 32-bit range, and the   *)
(* carry out of bit 31, are exact.                                         *)
(***************************************************************************)
\* Largest value of the upper 24 bits of a u32 (2^24 - 1).
U32_HI_MAX == 16777215

U32(n) == [hi |-> n \div 256, lo |-> n % 256]

\* u32 + u32, as the hardware adds: the wrapped sum and the carry out.
AddU32(a, b) ==
    LET lo    == a.lo + b.lo
        hi    == a.hi + b.hi + (lo \div 256)
    IN  [sum  |-> [hi |-> hi % (U32_HI_MAX + 1), lo |-> lo % 256],
         over |-> hi > U32_HI_MAX]

\* a <= b on u32 values.
LeqU32(a, b) == (a.hi < b.hi) \/ (a.hi = b.hi /\ a.lo <= b.lo)

\* `x & 0x000000ff` of a u32, as a u32.
LowByte(a) == [hi |-> 0, lo |-> a.lo]

(***************************************************************************)
(* u8 values and their bit operations.                                     *)
(***************************************************************************)
RECURSIVE BitOr(_, _, _)
BitOr(a, b, bits) ==
    IF bits = 0 THEN 0
    ELSE (IF a % 2 = 1 \/ b % 2 = 1 THEN 1 ELSE 0)
         + 2 * BitOr(a \div 2, b \div 2, bits - 1)

RECURSIVE BitAnd(_, _, _)
BitAnd(a, b, bits) ==
    IF bits = 0 THEN 0
    ELSE (IF a % 2 = 1 /\ b % 2 = 1 THEN 1 ELSE 0)
         + 2 * BitAnd(a \div 2, b \div 2, bits - 1)


(***************************************************************************)
(* Option values: Some(x) and None.                                        *)
(***************************************************************************)
Some(x) == <<x>>
None    == <<>>

(***************************************************************************)
(* Command opcodes: SpiCommand (lines 43-61) and OpiCommand (lines 66-168, *)
(* the commands the driver issues).                                        *)
(***************************************************************************)
SpiCommand ==
    [WriteEnable                 |-> 6,      \* 0x06
     ResetEnable                 |-> 102,    \* 0x66
     ResetMemory                 |-> 153,    \* 0x99
     ReadIdentification          |-> 159,    \* 0x9F
     ReadStatusRegister          |-> 5,      \* 0x05
     ReadConfigurationRegister2  |-> 113,    \* 0x71
     WriteConfigurationRegister2 |-> 114]    \* 0x72

OpiCommand ==
    [OctaDTRRead                      |-> 60945,   \* 0xEE11
     PageProgram4B                    |-> 4845,    \* 0x12ED
     SectorErase4B                    |-> 8670,    \* 0x21DE
     BlockErase4B                     |-> 56355,   \* 0xDC23
     ChipErase                        |-> 24735,   \* 0x609F
     WriteEnable                      |-> 1785,    \* 0x06F9
     ReadIdentification               |-> 40800,   \* 0x9F60
     ReadStatusRegister               |-> 1530,    \* 0x05FA
     ReadConfigurationRegister        |-> 5610,    \* 0x15EA
     WriteStatusConfigurationRegister |-> 510,     \* 0x01FE
     ReadConfigurationRegister2       |-> 29070,   \* 0x718E
     WriteConfigurationRegister2      |-> 29325]   \* 0x728D

(***************************************************************************)
(* Transfer descriptors.  DefaultTransferConfig is what                    *)
(* `..Default::default()` fills in for the fields a function leaves out.   *)
(***************************************************************************)
DefaultTransferConfig ==
    [iwidth |-> "NONE", isize |-> 8, idtr |-> FALSE, instruction |-> None,
     adwidth |-> "NONE", adsize |-> 8, addtr |-> FALSE, address |-> None,
     dwidth |-> "NONE", ddtr |-> FALSE, dummy |-> 0]

\* exec_command_spi (lines 251-260)
Cfg_exec_command_spi(cmd) ==
    [DefaultTransferConfig EXCEPT
        !.iwidth = "SING", !.adwidth = "NONE", !.dwidth = "NONE",
        !.instruction = Some(cmd), !.address = None, !.dummy = 0]

\* read_register_spi (lines 268-277)
Cfg_read_register_spi(cmd) ==
    [DefaultTransferConfig EXCEPT
        !.iwidth = "SING", !.isize = 8, !.adwidth = "NONE", !.dwidth = "SING",
        !.instruction = Some(cmd), !.address = None, !.dummy = 0]

\* read_cr2_spi (lines 284-294)
Cfg_read_cr2_spi(address) ==
    [DefaultTransferConfig EXCEPT
        !.iwidth = "SING", !.isize = 8,
        !.instruction = Some(SpiCommand.ReadConfigurationRegister2),
        !.adsize = 32, !.adwidth = "SING", !.dwidth = "SING",
        !.address = Some(address), !.dummy = 0]

\* write_cr2_spi (lines 301-311)
Cfg_write_cr2_spi(address) ==
    [DefaultTransferConfig EXCEPT
        !.iwidth = "SING", !.isize = 8,
        !.instruction = Some(SpiCommand.WriteConfigurationRegister2),
        !.adsize = 32, !.adwidth = "SING", !.dwidth = "SING",
        !.address = Some(address), !.dummy = 0]

\* enable_mm, read_config (lines 319-331)
Cfg_mm_read ==
    [DefaultTransferConfig EXCEPT
        !.iwidth = "OCTO", !.isize = 16, !.idtr = TRUE,
        !.adwidth = "OCTO", !.adsize = 32, !.addtr = TRUE,
        !.dwidth = "OCTO", !.ddtr = TRUE,
        !.instruction = Some(OpiCommand.OctaDTRRead), !.dummy = 20]

\* Mutation of Cfg_mm_write: the write template carries the read opcode.
Cfg_mm_write_ReadOpcode ==
    [DefaultTransferConfig EXCEPT
        !.iwidth = "OCTO", !.isize = 16, !.idtr = TRUE,
        !.adwidth = "OCTO", !.adsize = 32, !.addtr = TRUE,
        !.dwidth = "OCTO", !.ddtr = TRUE,
        !.instruction = Some(OpiCommand.OctaDTRRead), !.dummy = 0]

\* enable_mm, write_config (lines 333-345)
Cfg_mm_write ==
    [DefaultTransferConfig EXCEPT
        !.iwidth = "OCTO", !.isize = 16, !.idtr = TRUE,
        !.adwidth = "OCTO", !.adsize = 32, !.addtr = TRUE,
        !.dwidth = "OCTO", !.ddtr = TRUE,
        !.instruction = Some(OpiCommand.PageProgram4B), !.dummy = 0]

\* exec_command (lines 359-369)
Cfg_exec_command(cmd) ==
    [DefaultTransferConfig EXCEPT
        !.iwidth = "OCTO", !.isize = 16, !.idtr = TRUE,
        !.adwidth = "NONE", !.dwidth = "NONE",
        !.instruction = Some(cmd), !.address = None, !.dummy = 0]

\* read_id (lines 382-395)
Cfg_read_id ==
    [DefaultTransferConfig EXCEPT
        !.iwidth = "OCTO", !.isize = 16, !.idtr = TRUE,
        !.adwidth = "OCTO", !.adsize = 32, !.addtr = TRUE,
        !.dwidth = "OCTO", !.ddtr = FALSE,
        !.instruction = Some(OpiCommand.ReadIdentification),
        !.address = Some(U32(0)), !.dummy = DUMMY_CYCLES_REG_OCTAL_DTR]

\* Mutation of Cfg_read_memory: the dummy cycles of a register read.
Cfg_read_memory_RegDummy(addr) ==
    [DefaultTransferConfig EXCEPT
        !.iwidth = "OCTO", !.isize = 16, !.idtr = TRUE,
        !.adwidth = "OCTO", !.adsize = 32, !.addtr = TRUE,
        !.dwidth = "OCTO", !.ddtr = TRUE,
        !.instruction = Some(OpiCommand.OctaDTRRead),
        !.address = Some(addr), !.dummy = DUMMY_CYCLES_REG_OCTAL_DTR]

\* read_memory (lines 403-416)
Cfg_read_memory(addr) ==
    [DefaultTransferConfig EXCEPT
        !.iwidth = "OCTO", !.isize = 16, !.idtr = TRUE,
        !.adwidth = "OCTO", !.adsize = 32, !.addtr = TRUE,
        !.dwidth = "OCTO", !.ddtr = TRUE,
        !.instruction = Some(OpiCommand.OctaDTRRead),
        !.address = Some(addr), !.dummy = 20]

\* perform_erase (lines 428-441)
Cfg_perform_erase(addr, cmd) ==
    [DefaultTransferConfig EXCEPT
        !.iwidth = "OCTO", !.isize = 16, !.idtr = TRUE,
        !.adwidth = "OCTO", !.adsize = 32, !.addtr = TRUE,
        !.dwidth = "NONE", !.ddtr = TRUE,
        !.instruction = Some(cmd), !.address = Some(addr), !.dummy = 0]

\* Mutation of Cfg_write_page: the data phase is single-rate.
Cfg_write_page_SingleRate(addr) ==
    [DefaultTransferConfig EXCEPT
        !.iwidth = "OCTO", !.isize = 16, !.idtr = TRUE,
        !.adwidth = "OCTO", !.adsize = 32, !.addtr = TRUE,
        !.dwidth = "OCTO", !.ddtr = FALSE,
        !.instruction = Some(OpiCommand.PageProgram4B),
        !.address = Some(addr), !.dummy = 0]

\* write_page (lines 477-490)
Cfg_write_page(addr) ==
    [DefaultTransferConfig EXCEPT
        !.iwidth = "OCTO", !.isize = 16, !.idtr = TRUE,
        !.adwidth = "OCTO", !.adsize = 32, !.addtr = TRUE,
        !.dwidth = "OCTO", !.ddtr = TRUE,
        !.instruction = Some(OpiCommand.PageProgram4B),
        !.address = Some(addr), !.dummy = 0]

\* Mutation of Cfg_read_register: the single-wire descriptor of
\* read_register_spi is used after the switch to Octal-DTR.
Cfg_read_register_Legacy(cmd, dummy_addr, dummy_cycles) ==
    Cfg_read_register_spi(SpiCommand.ReadStatusRegister)

\* read_register (lines 518-531)
Cfg_read_register(cmd, dummy_addr, dummy_cycles) ==
    [DefaultTransferConfig EXCEPT
        !.iwidth = "OCTO", !.isize = 16, !.idtr = TRUE,
        !.adwidth = "OCTO", !.adsize = 32, !.addtr = TRUE,
        !.dwidth = "OCTO", !.ddtr = TRUE,
        !.instruction = Some(cmd), !.address = Some(dummy_addr),
        !.dummy = dummy_cycles]

\* write_sr_cr (lines 559-572)
Cfg_write_sr_cr ==
    [DefaultTransferConfig EXCEPT
        !.iwidth = "OCTO", !.isize = 16, !.idtr = TRUE,
        !.adwidth = "OCTO", !.adsize = 32, !.addtr = TRUE,
        !.dwidth = "OCTO", !.ddtr = TRUE,
        !.instruction = Some(OpiCommand.WriteStatusConfigurationRegister),
        !.address = Some(U32(0)), !.dummy = 0]

\* read_cr2 (lines 585-598)
Cfg_read_cr2(address) ==
    [DefaultTransferConfig EXCEPT
        !.iwidth = "OCTO", !.isize = 16, !.idtr = TRUE,
        !.adwidth = "OCTO", !.adsize = 32, !.addtr = TRUE,
        !.dwidth = "OCTO", !.ddtr = TRUE,
        !.instruction = Some(OpiCommand.ReadConfigurationRegister2),
        !.address = Some(address), !.dummy = 4]

\* write_cr2 (lines 608-621)
Cfg_write_cr2(address) ==
    [DefaultTransferConfig EXCEPT
        !.iwidth = "OCTO", !.isize = 16, !.idtr = TRUE,
        !.adwidth = "OCTO", !.adsize = 32, !.addtr = TRUE,
        !.dwidth = "OCTO", !.ddtr = TRUE,
        !.instruction = Some(OpiCommand.WriteConfigurationRegister2),
        !.address = Some(address), !.dummy = 0]

(***************************************************************************)
(* A buffer of u16 words as the bytes the transport clocks out (the        *)
(* target is little-endian: low byte first).                               *)
(***************************************************************************)
\* Mutation of WordBytes: the high byte goes out first.
WordBytes_HighFirst(word) == <<word \div 256, word % 256>>

WordBytes(word) == <<word % 256, word \div 256>>

\* `value as u16` (line 624): zero extension of a u8.
AsU16(value) == value % 65536


(***************************************************************************)
(* Lengths of the fixed buffers the register functions hand the transport. *)
(***************************************************************************)
\* `let mut buffer = [0; 1]` (read_register_spi line 267, read_cr2_spi line 283)
BUFFER_LEN_SPI == 1
\* `let mut buffer = [0; 1]` (read_register, line 517)
BUFFER_LEN_read_register == 1
\* `let mut buffer = [0; 2]` (read_cr2, line 584)
BUFFER_LEN_read_cr2 == 2
\* `let mut buffer = [0; 4]` (read_id, line 381)
BUFFER_LEN_read_id == 4

(***************************************************************************)
(* Inputs of the public operations.                                        *)
(***************************************************************************)
\* The i-th byte of a caller's buffer of test data (distinct in every page).
PatternByte(i) == (i * 7) % 251
Pattern(n) == [i \in 1..n |-> PatternByte(i)]

\* Start addresses for write_memory: page aligned (0x0), inside a page
\* (0xF0), at the last byte of a page (0x1FF), and in the last page of the
\* 32-bit range (0xFFFFFF00, 0xFFFFFFF0).
WriteAddrs ==
    {U32(0), U32(240), U32(511),
     [hi |-> U32_HI_MAX, lo |-> 0], [hi |-> U32_HI_MAX, lo |-> 240]}

\* Buffer lengths for write_memory.
WriteLens ==
    {0, 1, 32, MEMORY_PAGE_SIZE, MEMORY_PAGE_SIZE + 1, MaxLen}

\* Addresses for erase and read_memory.
ArrayAddrs == {U32(0), U32(69637)}

\* Buffer lengths for read_memory.
ReadLens == {1, 3, MaxLen}

\* Addresses of Configuration Register 2 and register values.
Cr2Addrs == {U32(0), U32(512)}
RegValues == {0, 165}

\* Values Configuration Register 2 at address 0 may hold when the driver is
\* constructed: bit 1 clear (0x00, 0xA5) or already set (0x02).
ResetCr2Values == RegValues \cup {2}

(***************************************************************************)
(* State.                                                                  *)
(***************************************************************************)
VARIABLES
    pc,         \* position of the driver in its code
    op,         \* the public operation in progress (or last finished) and its arguments
    wm,         \* write_memory's locals: left, place, chunk_start
    page,       \* write_page's arguments: addr, buffer, len
    cr2_0,      \* new's local cr2_0
    ret,        \* bytes returned by the last operation that returns a value
    bus,        \* transactions the current operation handed to the transport, in order
    polls,      \* status reads of the current polling loop that reported WIP set
    panic,      \* why the driver panicked, "none" while it has not
    switched,   \* the Configuration-2 write enabling Octal-DTR has been sent
    octal_seen, \* an Octal-shaped transaction has been sent
    dev_wip,    \* device: "idle", "busy" (an internal cycle that will end) or "stuck"
    dev_wel,    \* device: write enable latch
    dev_cr2,    \* device: Configuration Register 2, by address
    mm,         \* transport: memory-mapped mode, and the templates it was given
    prev        \* the previous call, when it was a write_cr2 and a read_cr2 follows

vars == <<pc, op, wm, page, cr2_0, ret, bus, polls, panic, switched, octal_seen,
          dev_wip, dev_wel, dev_cr2, mm, prev>>

locals == <<op, wm, page, cr2_0, ret, prev>>
device == <<dev_wip, dev_wel, dev_cr2>>

NoOp   == [name |-> "new", addr |-> U32(0), buffer |-> <<>>, value |-> 0, value2 |-> 0]
NoWm   == [left |-> 0, place |-> U32(0), chunk_start |-> 0, chunk_size |-> 0]
NoPage == [addr |-> U32(0), buffer |-> <<>>, len |-> U32(0)]
NoMm   == [enabled |-> FALSE, read |-> None, write |-> None]

(***************************************************************************)
(* A transaction as handed to the transport: the transport function        *)
(* called, the descriptor, the number of data bytes asked for or sent, the *)
(* data (sent, or received on success), and whether the transport          *)
(* returned Ok.                                                            *)
(***************************************************************************)
Tx(call, cfg, nbytes, data, ok) ==
    [call |-> call, cfg |-> cfg, nbytes |-> nbytes, data |-> data, ok |-> ok]

LegacyShaped(tx) == tx.cfg.iwidth = "SING"
OctalShaped(tx)  == tx.cfg.iwidth = "OCTO"

Instr(tx) == tx.cfg.instruction[1]

(***************************************************************************)
(* The device, as far as the driver can observe it.                        *)
(***************************************************************************)
\* Status Register: bit 0 is WIP, bit 1 is WEL.
DevStatus ==
    (IF dev_wip = "idle" THEN 0 ELSE 1) + (IF dev_wel THEN 2 ELSE 0)

\* Commands that start an internal cycle of the device.
StartsCycle(tx) ==
    \/ LegacyShaped(tx) /\ Instr(tx) \in {SpiCommand.ResetMemory,
                                          SpiCommand.WriteConfigurationRegister2}
    \/ OctalShaped(tx) /\ Instr(tx) \in {OpiCommand.PageProgram4B,
                                         OpiCommand.SectorErase4B,
                                         OpiCommand.BlockErase4B,
                                         OpiCommand.ChipErase,
                                         OpiCommand.WriteStatusConfigurationRegister,
                                         OpiCommand.WriteConfigurationRegister2}

IsWriteEnable(tx) ==
    \/ LegacyShaped(tx) /\ Instr(tx) = SpiCommand.WriteEnable
    \/ OctalShaped(tx) /\ Instr(tx) = OpiCommand.WriteEnable

IsWriteCr2(tx) ==
    \/ LegacyShaped(tx) /\ Instr(tx) = SpiCommand.WriteConfigurationRegister2
    \/ OctalShaped(tx) /\ Instr(tx) = OpiCommand.WriteConfigurationRegister2

\* The device receives a transaction that the transport carried out.  `kind`
\* is how a started internal cycle will go: "busy" (it ends), "stuck", or
\* "ignored" (the device does not take the command: no cycle starts, the
\* register keeps its value and the write enable latch is dropped).
DeviceReceives(tx, kind) ==
    /\ dev_wip' = IF StartsCycle(tx) /\ kind # "ignored" THEN kind ELSE dev_wip
    /\ dev_wel' = IF IsWriteEnable(tx) THEN TRUE
                  ELSE IF StartsCycle(tx) /\ kind = "ignored" THEN FALSE
                  ELSE IF StartsCycle(tx) /\ LegacyShaped(tx)
                          /\ Instr(tx) = SpiCommand.ResetMemory THEN FALSE
                  ELSE dev_wel
    /\ dev_cr2' = IF IsWriteCr2(tx) /\ kind # "ignored"
                     /\ tx.cfg.address[1] \in DOMAIN dev_cr2
                  THEN [dev_cr2 EXCEPT ![tx.cfg.address[1]] = tx.data[1]]
                  ELSE dev_cr2

\* The device ends its internal cycle: WIP and WEL clear.
DeviceFinish ==
    /\ dev_wip = "busy"
    /\ dev_wip' = "idle"
    /\ dev_wel' = FALSE
    /\ UNCHANGED <<pc, locals, bus, polls, panic, switched, octal_seen, dev_cr2, mm>>

\* Handing a transaction to the transport: it is recorded, and so is whether
\* an Octal-shaped transaction has ever been sent.
Send(tx) ==
    /\ bus' = Append(bus, tx)
    /\ octal_seen' = (octal_seen \/ OctalShaped(tx))

\* Mutation of Panic: the transport's error is dropped and the call is made
\* again.
Panic_Ignored(why) ==
    /\ pc' = pc
    /\ panic' = panic

(***************************************************************************)
(* `.unwrap()` on the transport's result.                                  *)
(***************************************************************************)
Panic(why) ==
    /\ pc' = "panicked"
    /\ panic' = why

(***************************************************************************)
(* Construction: OpiFlashMemory::new and the SPI helpers it uses.          *)
(***************************************************************************)
Init ==
    /\ pc = "new:reset_enable"
    /\ op = NoOp
    /\ wm = NoWm
    /\ page = NoPage
    /\ cr2_0 = 0
    /\ ret = <<>>
    /\ bus = <<>>
    /\ polls = 0
    /\ panic = "none"
    /\ switched = FALSE
    /\ octal_seen = FALSE
    /\ dev_wip \in {"idle", "busy"}
    /\ dev_wel = FALSE
    /\ dev_cr2 \in {[a \in Cr2Addrs |-> IF a = U32(0) THEN v ELSE w] :
                       v \in ResetCr2Values, w \in RegValues}
    /\ mm = NoMm
    /\ prev = [name |-> "none", addr |-> U32(0), value |-> 0]

\* exec_command_spi (lines 250-262), called at `at`; `next` is where the
\* caller goes on.
exec_command_spi(at, cmd, next) ==
    /\ pc = at
    /\ \E ok \in BOOLEAN, kind \in {"busy", "stuck"} :
        LET tx == Tx("blocking_command", Cfg_exec_command_spi(cmd), 0, <<>>, ok)
        IN  /\ Send(tx)
            /\ IF ok
               THEN /\ DeviceReceives(tx, kind)
                    /\ pc' = next
                    /\ panic' = panic
               ELSE /\ Panic("transport")
                    /\ UNCHANGED device
    /\ UNCHANGED <<locals, polls, switched, mm>>


\* What the device puts on the bus for a read of `nbytes` bytes.  A register
\* is repeated for as long as the read lasts, except Configuration-2, whose
\* byte is followed by bytes this model does not fix.  Array and
\* identification data are not modelled: the array reads erased bytes.
DeviceAnswers(cfg, nbytes) ==
    LET i == cfg.instruction[1]
        legacy == cfg.iwidth = "SING"
    IN  IF (legacy /\ i = SpiCommand.ReadStatusRegister)
           \/ (~legacy /\ i = OpiCommand.ReadStatusRegister)
        THEN {[k \in 1..nbytes |-> DevStatus]}
        ELSE IF (legacy /\ i = SpiCommand.ReadConfigurationRegister2)
                \/ (~legacy /\ i = OpiCommand.ReadConfigurationRegister2)
        THEN {[k \in 1..nbytes |-> IF k = 1 THEN dev_cr2[cfg.address[1]] ELSE pad] :
                 pad \in RegValues}
        ELSE IF ~legacy /\ i = OpiCommand.ReadConfigurationRegister
        THEN {[k \in 1..nbytes |-> v] : v \in RegValues}
        ELSE {[k \in 1..nbytes |-> 255]}

\* Mutation of WriteInProgress: the WEL bit is tested instead of WIP.
WriteInProgress_WrongBit(status) == BitAnd(status, 2, 8) # 0

\* Mutation of WriteInProgress: the loop is left after the first Status
\* read, whatever it reports.
WriteInProgress_Never(status) == FALSE

\* The loop condition of wait_write_finish_spi and wait_write_finish:
\* `(status & 0x01) != 0` (lines 247, 422).
WriteInProgress(status) == BitAnd(status, 1, 8) # 0

\* read_register_spi (lines 266-280) inside wait_write_finish_spi
\* (lines 246-248): one turn of the loop.
wait_write_finish_spi(at, next) ==
    /\ pc = at
    /\ dev_wip # "idle" => polls < MaxPolls
    /\ \E ok \in BOOLEAN :
        LET cfg == Cfg_read_register_spi(SpiCommand.ReadStatusRegister)
            buffer == CHOOSE b \in DeviceAnswers(cfg, BUFFER_LEN_SPI) : TRUE
            tx == Tx("blocking_read", cfg, BUFFER_LEN_SPI,
                     IF ok THEN buffer ELSE <<>>, ok)
        IN  /\ Send(tx)
            /\ IF ok
               THEN /\ IF WriteInProgress(buffer[1])
                       THEN pc' = at /\ polls' = polls + 1
                       ELSE pc' = next /\ polls' = 0
                    /\ panic' = panic
               ELSE /\ Panic("transport")
                    /\ polls' = polls
    /\ UNCHANGED <<locals, switched, device, mm>>

\* read_cr2_spi(0) (lines 282-297) as called by new (line 209).
read_cr2_spi(at, address, next) ==
    /\ pc = at
    /\ \E ok \in BOOLEAN :
        LET cfg == Cfg_read_cr2_spi(address)
        IN  \E buffer \in DeviceAnswers(cfg, BUFFER_LEN_SPI) :
              /\ Send(Tx("blocking_read", cfg, BUFFER_LEN_SPI,
                                       IF ok THEN buffer ELSE <<>>, ok))
              /\ IF ok
                 THEN /\ cr2_0' = buffer[1]
                      /\ pc' = next
                      /\ panic' = panic
                 ELSE /\ Panic("transport")
                      /\ cr2_0' = cr2_0
    /\ UNCHANGED <<op, wm, page, ret, prev, polls, switched, device, mm>>

\* Mutation of EnableOctalDtr: the value read is dropped and 0x02 written.
EnableOctalDtr_Overwrite(v) == 2

\* The value new writes to Configuration-2: `cr2_0 | 0x02` (line 212).
EnableOctalDtr(v) == BitOr(v, 2, 8)

\* write_cr2_spi (lines 299-314), up to the call of wait_write_finish_spi.
\* The device may not take the write (the switch to Octal-DTR fails).
write_cr2_spi(at, address, value, next) ==
    /\ pc = at
    /\ \E ok \in BOOLEAN, kind \in {"busy", "stuck", "ignored"} :
        LET buffer == <<value>>
            tx == Tx("blocking_write", Cfg_write_cr2_spi(address), Len(buffer), buffer, ok)
        IN  /\ Send(tx)
            /\ IF ok
               THEN /\ DeviceReceives(tx, kind)
                    /\ pc' = next
                    /\ panic' = panic
                    /\ switched' = TRUE
               ELSE /\ Panic("transport")
                    /\ UNCHANGED <<device, switched>>
    /\ UNCHANGED <<locals, polls, mm>>

(***************************************************************************)
(* Octal-DTR helpers.                                                      *)
(***************************************************************************)
\* exec_command (lines 358-371)
exec_command(at, cmd, next) ==
    /\ pc = at
    /\ \E ok \in BOOLEAN, kind \in {"busy", "stuck"} :
        LET tx == Tx("blocking_command", Cfg_exec_command(cmd), 0, <<>>, ok)
        IN  /\ Send(tx)
            /\ IF ok
               THEN /\ DeviceReceives(tx, kind)
                    /\ pc' = next
                    /\ panic' = panic
               ELSE /\ Panic("transport")
                    /\ UNCHANGED device
    /\ UNCHANGED <<locals, polls, switched, mm>>

\* Where enable_write's caller goes on.
AfterEnableWrite(name) ==
    CASE name \in {"erase_sector", "erase_block_64k"} -> "perform_erase"
      [] name = "erase_chip"                          -> "erase_chip"
      [] name \in {"write_memory", "write_page"}      -> "page_program"
      [] name = "write_sr_cr"                         -> "write_sr_cr"
      [] name = "write_cr2"                           -> "write_cr2"
      [] OTHER                                        -> "done"

\* Where wait_write_finish's caller goes on: write_page returns into
\* write_memory's loop, every other caller returns to the application.
AfterWait(name) ==
    IF name = "write_memory" THEN "write_memory_next" ELSE "done"

\* read_register (lines 516-534): the transaction and the byte returned.
read_register(at, cmd, dummy_addr, dummy_cycles, next) ==
    /\ pc = at
    /\ \E ok \in BOOLEAN :
        LET cfg == Cfg_read_register(cmd, dummy_addr, dummy_cycles)
        IN  \E buffer \in DeviceAnswers(cfg, BUFFER_LEN_read_register) :
              /\ Send(Tx("blocking_read", cfg, BUFFER_LEN_read_register,
                                       IF ok THEN buffer ELSE <<>>, ok))
              /\ IF ok
                 THEN /\ ret' = <<buffer[1]>>
                      /\ pc' = next
                      /\ panic' = panic
                 ELSE /\ Panic("transport")
                      /\ ret' = ret
    /\ UNCHANGED <<op, wm, page, cr2_0, prev, polls, switched, device, mm>>

\* wait_write_finish (lines 421-423): one turn of the loop, a read_sr
\* (lines 538-544) through read_register.
wait_write_finish(at, next) ==
    /\ pc = at
    /\ dev_wip # "idle" => polls < MaxPolls
    /\ \E ok \in BOOLEAN :
        LET cfg == Cfg_read_register(OpiCommand.ReadStatusRegister, U32(0), 4)
            buffer == CHOOSE b \in DeviceAnswers(cfg, BUFFER_LEN_read_register) : TRUE
            tx == Tx("blocking_read", cfg, BUFFER_LEN_read_register,
                     IF ok THEN buffer ELSE <<>>, ok)
        IN  /\ Send(tx)
            /\ IF ok
               THEN /\ IF WriteInProgress(buffer[1])
                       THEN pc' = at /\ polls' = polls + 1
                       ELSE pc' = next /\ polls' = 0
                    /\ panic' = panic
               ELSE /\ Panic("transport")
                    /\ polls' = polls
    /\ UNCHANGED <<locals, switched, device, mm>>

\* read_cr2 (lines 583-601)
read_cr2(at, address, next) ==
    /\ pc = at
    /\ \E ok \in BOOLEAN :
        LET cfg == Cfg_read_cr2(address)
        IN  \E buffer \in DeviceAnswers(cfg, BUFFER_LEN_read_cr2) :
              /\ Send(Tx("blocking_read", cfg, BUFFER_LEN_read_cr2,
                                       IF ok THEN buffer ELSE <<>>, ok))
              /\ IF ok
                 THEN /\ ret' = <<buffer[1]>>
                      /\ pc' = next
                      /\ panic' = panic
                 ELSE /\ Panic("transport")
                      /\ ret' = ret
    /\ UNCHANGED <<op, wm, page, cr2_0, prev, polls, switched, device, mm>>


(***************************************************************************)
(* The public operations.                                                  *)
(***************************************************************************)
\* Calls the application can make, with their arguments.
Calls ==
    [name : {"erase_sector", "erase_block_64k"}, addr : ArrayAddrs,
     buffer : {<<>>}, value : {0}, value2 : {0}]
    \cup [name : {"erase_chip", "enable_write", "read_id", "read_sr", "read_cr",
                  "enable_mm", "disable_mm"}, addr : {U32(0)},
          buffer : {<<>>}, value : {0}, value2 : {0}]
    \cup [name : {"write_memory"}, addr : WriteAddrs,
          buffer : {Pattern(n) : n \in WriteLens}, value : {0}, value2 : {0}]
    \cup [name : {"read_memory"}, addr : ArrayAddrs,
          buffer : {<<>>}, value : ReadLens, value2 : {0}]
    \cup [name : {"write_sr_cr"}, addr : {U32(0)},
          buffer : {<<>>}, value : RegValues, value2 : RegValues]
    \cup [name : {"write_cr2"}, addr : Cr2Addrs,
          buffer : {<<>>}, value : RegValues, value2 : {0}]
    \cup [name : {"read_cr2"}, addr : Cr2Addrs,
          buffer : {<<>>}, value : {0}, value2 : {0}]

\* Mutation of FirstPc: no operation starts with enable_write.
FirstPc_NoWriteEnable(name) == name

\* The first transport call, or loop head, of each operation.
FirstPc(name) ==
    IF name \in {"erase_sector", "erase_block_64k", "erase_chip", "write_sr_cr",
                 "write_cr2", "enable_write"}
    THEN "enable_write"
    ELSE name

\* What the application remembers of a finished call: a write_cr2 and its
\* arguments, an enable_mm or disable_mm, or nothing.
NoPrev == [name |-> "none", addr |-> U32(0), value |-> 0]
Summary(c) ==
    IF c.name = "write_cr2"
    THEN [name |-> c.name, addr |-> c.addr, value |-> c.value]
    ELSE IF c.name \in {"enable_mm", "disable_mm"}
    THEN [NoPrev EXCEPT !.name = c.name]
    ELSE NoPrev

\* The application calls a public operation on the constructed driver.
\* For write_memory this runs lines 499-501.
Call ==
    /\ pc = "idle"
    /\ \E c \in Calls :
        /\ op' = c
        /\ wm' = [left |-> Len(c.buffer), place |-> c.addr, chunk_start |-> 0,
                  chunk_size |-> 0]
        /\ pc' = FirstPc(c.name)
        /\ prev' = IF \/ c.name = "read_cr2" /\ prev.name = "write_cr2"
                      \/ c.name \in {"enable_mm", "disable_mm"}
                         /\ prev.name \in {"enable_mm", "disable_mm"}
                   THEN prev ELSE NoPrev
    /\ UNCHANGED <<page, cr2_0, ret, bus, polls, panic, switched, octal_seen, device, mm>>

\* The operation returns to the application: its frame, and the record of
\* its transactions, are dropped.
Return ==
    /\ pc = "done"
    /\ pc' = "idle"
    /\ prev' = Summary(op)
    /\ op' = NoOp
    /\ wm' = NoWm
    /\ page' = NoPage
    /\ cr2_0' = 0
    /\ ret' = <<>>
    /\ bus' = <<>>
    /\ polls' = 0
    /\ UNCHANGED <<panic, switched, octal_seen, device, mm>>

\* enable_mm (lines 318-350)
enable_mm ==
    /\ pc = "enable_mm"
    /\ \E ok \in BOOLEAN :
        IF ok
        THEN /\ mm' = [enabled |-> TRUE, read |-> Some(Cfg_mm_read),
                       write |-> Some(Cfg_mm_write)]
             /\ pc' = "done"
             /\ panic' = panic
        ELSE /\ Panic("transport")
             /\ mm' = mm
    /\ UNCHANGED <<locals, bus, polls, switched, octal_seen, device>>

\* disable_mm (lines 352-354)
disable_mm ==
    /\ pc = "disable_mm"
    /\ mm' = NoMm
    /\ pc' = "done"
    /\ UNCHANGED <<locals, bus, polls, panic, switched, octal_seen, device>>

\* read_id (lines 380-398)
read_id ==
    /\ pc = "read_id"
    /\ \E ok \in BOOLEAN :
        LET cfg == Cfg_read_id
        IN  \E buffer \in DeviceAnswers(cfg, BUFFER_LEN_read_id) :
              /\ Send(Tx("blocking_read", cfg, BUFFER_LEN_read_id,
                                       IF ok THEN buffer ELSE <<>>, ok))
              /\ IF ok
                 THEN /\ ret' = buffer
                      /\ pc' = "done"
                      /\ panic' = panic
                 ELSE /\ Panic("transport")
                      /\ ret' = ret
    /\ UNCHANGED <<op, wm, page, cr2_0, prev, polls, switched, device, mm>>

\* read_memory (lines 402-418); the caller's buffer has op.value bytes.
read_memory ==
    /\ pc = "read_memory"
    /\ \E ok \in BOOLEAN :
        LET cfg == Cfg_read_memory(op.addr)
        IN  \E buffer \in DeviceAnswers(cfg, op.value) :
              /\ Send(Tx("blocking_read", cfg, op.value,
                                       IF ok THEN buffer ELSE <<>>, ok))
              /\ IF ok
                 THEN /\ ret' = buffer
                      /\ pc' = "done"
                      /\ panic' = panic
                 ELSE /\ Panic("transport")
                      /\ ret' = ret
    /\ UNCHANGED <<op, wm, page, cr2_0, prev, polls, switched, device, mm>>

\* Mutation of EraseCommand: both callers pass the sector erase.
EraseCommand_AlwaysSector(name) == OpiCommand.SectorErase4B

\* The erase command of perform_erase's callers (lines 450, 456).
EraseCommand(name) ==
    IF name = "erase_sector" THEN OpiCommand.SectorErase4B
    ELSE OpiCommand.BlockErase4B

\* perform_erase (lines 427-445), the erase transaction (line 443).
perform_erase ==
    /\ pc = "perform_erase"
    /\ \E ok \in BOOLEAN, kind \in {"busy", "stuck"} :
        LET tx == Tx("blocking_command",
                     Cfg_perform_erase(op.addr, EraseCommand(op.name)), 0, <<>>, ok)
        IN  /\ Send(tx)
            /\ IF ok
               THEN /\ DeviceReceives(tx, kind)
                    /\ pc' = "wait_write_finish"
                    /\ panic' = panic
               ELSE /\ Panic("transport")
                    /\ UNCHANGED device
    /\ UNCHANGED <<locals, polls, switched, mm>>

(***************************************************************************)
(* write_memory and write_page.                                            *)
(***************************************************************************)
Min(a, b) == IF a <= b THEN a ELSE b

\* Mutation of MaxChunkSize: the offset inside the page is forgotten.
MaxChunkSize_WholePage(place) == MEMORY_PAGE_SIZE

\* `MEMORY_PAGE_SIZE - (place & 0x000000ff) as usize` (line 504)
MaxChunkSize(place) == MEMORY_PAGE_SIZE - LowByte(place).lo

\* Mutation of ChunkSize: no chunk is longer than half a page.
ChunkSize_HalfPage(place, left) ==
    Min(Min(MaxChunkSize(place), MEMORY_PAGE_SIZE \div 2), left)

\* `min(max_chunk_size, left)` (line 505)
ChunkSize(place, left) == Min(MaxChunkSize(place), left)

\* Mutation of Slice: every chunk is cut from the start of the buffer.
Slice_FromStart(buffer, start, size) == SubSeq(buffer, 1, size)

\* `&buffer[chunk_start..(chunk_start + chunk_size)]` (line 506)
Slice(buffer, start, size) == SubSeq(buffer, start + 1, start + size)

\* Mutation of Advance: the address moves on by a whole page.
Advance_ByPage(place, chunk_size) == AddU32(place, U32(MEMORY_PAGE_SIZE))

\* `place += chunk_size as u32` (line 508): the wrapped sum and whether the
\* addition overflows.
Advance(place, chunk_size) == AddU32(place, U32(chunk_size))

\* write_memory (lines 498-512): the loop test and, when bytes are left,
\* the body up to the call of write_page.
write_memory ==
    /\ pc = "write_memory"
    /\ IF wm.left > 0
       THEN LET chunk_size == ChunkSize(wm.place, wm.left)
                chunk == Slice(op.buffer, wm.chunk_start, chunk_size)
            IN  /\ wm' = [wm EXCEPT !.chunk_size = chunk_size]
                /\ page' = [addr |-> wm.place, buffer |-> chunk,
                            len |-> U32(chunk_size)]
                /\ pc' = "write_page"
       ELSE /\ pc' = "done"
            /\ UNCHANGED <<wm, page>>
    /\ UNCHANGED <<op, cr2_0, ret, prev, bus, polls, panic, switched, octal_seen, device, mm>>

\* write_memory (lines 508-510), after write_page has returned.  The u32
\* addition of line 508 panics on overflow in a build with overflow checks
\* and wraps in a build without: `checked` is the build.
write_memory_next ==
    /\ pc = "write_memory_next"
    /\ LET add == Advance(wm.place, wm.chunk_size)
       IN  \E checked \in BOOLEAN :
             IF add.over /\ checked
             THEN /\ Panic("overflow")
                  /\ wm' = wm
             ELSE /\ wm' = [wm EXCEPT !.place = add.sum,
                                      !.left = wm.left - wm.chunk_size,
                                      !.chunk_start = wm.chunk_start + wm.chunk_size]
                  /\ pc' = "write_memory"
                  /\ panic' = panic
    /\ UNCHANGED <<op, page, cr2_0, ret, prev, bus, polls, switched, octal_seen, device, mm>>

\* The assertion of write_page (lines 470-475):
\* `(len as u32 + (addr & 0x000000ff)) <= MEMORY_PAGE_SIZE as u32`.
\* `over` is whether the u32 addition overflows, `pass` whether the
\* (wrapped) sum passes the comparison.
PageCheck(addr, len) ==
    LET add == AddU32(len, LowByte(addr))
    IN  [over |-> add.over, pass |-> LeqU32(add.sum, U32(MEMORY_PAGE_SIZE))]

\* write_page (lines 469-494): the assertion.
write_page ==
    /\ pc = "write_page"
    /\ LET chk == PageCheck(page.addr, page.len)
       IN  \E checked \in BOOLEAN :
             IF chk.over /\ checked THEN Panic("overflow")
             ELSE IF ~chk.pass THEN Panic("assert")
             ELSE pc' = "enable_write" /\ panic' = panic
    /\ UNCHANGED <<locals, bus, polls, switched, octal_seen, device, mm>>

\* write_page (line 492): the Page-Program transaction.
page_program ==
    /\ pc = "page_program"
    /\ \E ok \in BOOLEAN, kind \in {"busy", "stuck"} :
        LET tx == Tx("blocking_write", Cfg_write_page(page.addr),
                     Len(page.buffer), page.buffer, ok)
        IN  /\ Send(tx)
            /\ IF ok
               THEN /\ DeviceReceives(tx, kind)
                    /\ pc' = "wait_write_finish"
                    /\ panic' = panic
               ELSE /\ Panic("transport")
                    /\ UNCHANGED device
    /\ UNCHANGED <<locals, polls, switched, mm>>

(***************************************************************************)
(* Register writes in Octal-DTR mode.                                      *)
(***************************************************************************)
\* write_sr_cr (lines 558-577): the write transaction (line 575).
write_sr_cr ==
    /\ pc = "write_sr_cr"
    /\ \E ok \in BOOLEAN, kind \in {"busy", "stuck"} :
        LET buffer == <<op.value, op.value2>>
            tx == Tx("blocking_write", Cfg_write_sr_cr, Len(buffer), buffer, ok)
        IN  /\ Send(tx)
            /\ IF ok
               THEN /\ DeviceReceives(tx, kind)
                    /\ pc' = "wait_write_finish"
                    /\ panic' = panic
               ELSE /\ Panic("transport")
                    /\ UNCHANGED device
    /\ UNCHANGED <<locals, polls, switched, mm>>

\* write_cr2 (lines 607-630): the write transaction (lines 624-628).
write_cr2 ==
    /\ pc = "write_cr2"
    /\ \E ok \in BOOLEAN, kind \in {"busy", "stuck"} :
        LET word == AsU16(op.value)
            buffer == WordBytes(word)
            tx == Tx("blocking_write", Cfg_write_cr2(op.addr), Len(buffer), buffer, ok)
        IN  /\ Send(tx)
            /\ IF ok
               THEN /\ DeviceReceives(tx, kind)
                    /\ pc' = "wait_write_finish"
                    /\ panic' = panic
               ELSE /\ Panic("transport")
                    /\ UNCHANGED device
    /\ UNCHANGED <<locals, polls, switched, mm>>

(***************************************************************************)
(* The driver: construction, then any sequence of public operations.       *)
(***************************************************************************)
\* Mutation of AfterModeCheck: a value read back with bit 1 clear stops
\* construction.
AfterModeCheck_Fatal(value) ==
    IF (value \div 2) % 2 = 1 THEN "done" ELSE "panicked"

\* new (lines 215-237): the value read back is logged and construction
\* returns the handle, whatever the value is.
AfterModeCheck(value) == "done"

new_return ==
    /\ pc = "new:return"
    /\ LET value == ret[1] \* `let cr2_0 = memory.read_cr2(0)` (line 215)
       IN  pc' = AfterModeCheck(value)
    /\ UNCHANGED <<locals, bus, polls, panic, switched, octal_seen, device, mm>>

new ==
    \/ exec_command_spi("new:reset_enable", SpiCommand.ResetEnable, "new:reset_memory")
    \/ exec_command_spi("new:reset_memory", SpiCommand.ResetMemory, "new:wait_reset")
    \/ wait_write_finish_spi("new:wait_reset", "new:read_cr2_spi")
    \/ read_cr2_spi("new:read_cr2_spi", U32(0), "new:write_enable")
    \/ exec_command_spi("new:write_enable", SpiCommand.WriteEnable, "new:write_cr2_spi")
    \/ write_cr2_spi("new:write_cr2_spi", U32(0), EnableOctalDtr(cr2_0), "new:wait_cr2")
    \/ wait_write_finish_spi("new:wait_cr2", "new:read_cr2")
    \/ read_cr2("new:read_cr2", U32(0), "new:return")
    \/ new_return

enable_write == exec_command("enable_write", OpiCommand.WriteEnable, AfterEnableWrite(op.name))

erase_chip == exec_command("erase_chip", OpiCommand.ChipErase, "wait_write_finish")

read_sr == read_register("read_sr", OpiCommand.ReadStatusRegister, U32(0), 4, "done")

read_cr == read_register("read_cr", OpiCommand.ReadConfigurationRegister, U32(1), 4, "done")

Next ==
    \/ new
    \/ Call
    \/ Return
    \/ enable_write
    \/ erase_chip
    \/ perform_erase
    \/ wait_write_finish("wait_write_finish", AfterWait(op.name))
    \/ write_memory
    \/ write_page
    \/ page_program
    \/ write_memory_next
    \/ write_sr_cr
    \/ write_cr2
    \/ read_cr2("read_cr2", op.addr, "done")
    \/ read_sr
    \/ read_cr
    \/ read_id
    \/ read_memory
    \/ enable_mm
    \/ disable_mm
    \/ DeviceFinish

Spec == Init /\ [][Next]_vars

\* The same, constructed on a device that is at rest (no internal cycle left
\* over from before the driver was constructed).
InitAtRest == Init /\ dev_wip = "idle"

SpecAtRest == InitAtRest /\ [][Next]_vars


(***************************************************************************)
(* write_page on its own: the function called with any address, buffer and *)
(* length, on a constructed driver with the device at rest.                *)
(***************************************************************************)
\* Lengths for write_page, up to 0xFFFFFFFF.
PageLens ==
    {U32(0), U32(1), U32(16), U32(17), U32(MEMORY_PAGE_SIZE),
     U32(MEMORY_PAGE_SIZE + 1), U32(MaxLen),
     [hi |-> U32_HI_MAX, lo |-> 16], [hi |-> U32_HI_MAX, lo |-> 255]}

InitPage ==
    /\ pc = "write_page"
    /\ op = [NoOp EXCEPT !.name = "write_page"]
    /\ wm = NoWm
    /\ page \in [addr : WriteAddrs, buffer : {Pattern(1), Pattern(16)}, len : PageLens]
    /\ cr2_0 = 0
    /\ ret = <<>>
    /\ bus = <<>>
    /\ polls = 0
    /\ panic = "none"
    /\ switched = TRUE
    /\ octal_seen = TRUE
    /\ dev_wip = "idle"
    /\ dev_wel = FALSE
    /\ dev_cr2 = [a \in Cr2Addrs |-> 2]
    /\ mm = NoMm
    /\ prev = NoPrev

NextPage ==
    \/ write_page
    \/ enable_write
    \/ page_program
    \/ wait_write_finish("wait_write_finish", AfterWait(op.name))
    \/ DeviceFinish

SpecPage == InitPage /\ [][NextPage]_vars

(***************************************************************************)
(* Properties.                                                             *)
(***************************************************************************)
IsPageProgram(tx) == OctalShaped(tx) /\ Instr(tx) = OpiCommand.PageProgram4B

\* The Page-Program transactions of the current operation, in issue order.
Chunks == SelectSeq(bus, IsPageProgram)

ChunkAddr(tx) == tx.cfg.address[1]

RECURSIVE SumLen(_)
SumLen(txs) == IF txs = <<>> THEN 0 ELSE Head(txs).nbytes + SumLen(Tail(txs))

\* C1: every Page-Program transaction that write_memory issues carries at
\* least 1 and at most 256 bytes, its byte range stays inside one 256-byte
\* page, and the assertion of write_page never fails under write_memory.
C1_ChunksWithinPage ==
    op.name = "write_memory" =>
        /\ \A i \in 1..Len(Chunks) :
            /\ Chunks[i].nbytes >= 1
            /\ Chunks[i].nbytes <= MEMORY_PAGE_SIZE
            /\ ChunkAddr(Chunks[i]).lo + Chunks[i].nbytes <= MEMORY_PAGE_SIZE
        /\ panic # "assert"

\* A write_memory that started inside the last page of the address range
\* has finished after three Page-Programs, one of them a full page.
C1_Witness ==
    /\ pc = "done"
    /\ op.name = "write_memory"
    /\ Len(Chunks) = 3
    /\ \E i \in 1..Len(Chunks) : Chunks[i].nbytes = MEMORY_PAGE_SIZE
    /\ op.addr.hi = U32_HI_MAX

\* a + n <= 2^32: the range [a, a+n) lies inside the 32-bit address space.
InAddressSpace(a, n) ==
    LET end == AddU32(a, U32(n))
    IN  ~end.over \/ end.sum = U32(0)

\* The chunks start at the call's address and each starts where the one
\* before ended, at a larger address.
ChunksContiguous ==
    /\ Len(Chunks) > 0 => ChunkAddr(Chunks[1]) = op.addr
    /\ \A i \in 2..Len(Chunks) :
        LET end == AddU32(ChunkAddr(Chunks[i-1]), U32(Chunks[i-1].nbytes))
        IN  /\ ~end.over
            /\ ChunkAddr(Chunks[i]) = end.sum

\* write_memory has run to its end: it returned, or its last statement
\* executed was the address addition of line 508.
WriteMemoryEnded ==
    pc = "done" \/ (pc = "panicked" /\ panic = "overflow")

PageSplit ==
    /\ ChunksContiguous
    /\ pc = "done" => SumLen(Chunks) = Len(op.buffer)
    /\ (pc = "done" /\ op.addr = U32(240) /\ Len(op.buffer) = 32) =>
          /\ Len(Chunks) = 2
          /\ ChunkAddr(Chunks[1]) = U32(240) /\ Chunks[1].nbytes = 16
          /\ ChunkAddr(Chunks[2]) = U32(256) /\ Chunks[2].nbytes = 16

\* C2 as stated: for every start address and length, the chunks of
\* write_memory are contiguous from the start address in increasing order
\* and their lengths sum to the buffer's length.
C2_AsStated == op.name = "write_memory" => PageSplit

\* C2, amended: the same for every start address a and length n with
\* a + n <= 2^32; all n bytes have been issued when write_memory ends.
C2_PageSplit ==
    (op.name = "write_memory" /\ InAddressSpace(op.addr, Len(op.buffer))) =>
        /\ PageSplit
        /\ WriteMemoryEnded => SumLen(Chunks) = Len(op.buffer)

\* program(0xF0, 32 bytes) has returned.
C2_Witness ==
    /\ pc = "done"
    /\ op.name = "write_memory"
    /\ op.addr = U32(240)
    /\ Len(op.buffer) = 32
    /\ Len(Chunks) = 2


\* This step hands a transaction to the transport; Sent is that transaction.
Issues == Len(bus') = Len(bus) + 1
Sent == bus'[Len(bus')]

\* C3: every transaction up to and including the Configuration-2 write that
\* enables Octal-DTR is Legacy-shaped, and every transaction after that
\* write is Octal-shaped.
C3_ModeGated ==
    [][Issues => (LegacyShaped(Sent) <=> ~switched)]_vars

\* Register reads and writes in Octal-DTR mode.
IsOctalRegisterAccess(tx) ==
    /\ OctalShaped(tx)
    /\ tx.cfg.ddtr
    /\ Instr(tx) \in {1530, 5610, 29070, 29325, 510}

\* C4: every register read or write in Octal-DTR mode (read_sr, read_cr,
\* read_cr2, write_cr2, write_sr_cr) asks for or sends an even number of
\* bytes, at least two.
C4_EvenRegisterBytes ==
    \A i \in 1..Len(bus) :
        IsOctalRegisterAccess(bus[i]) =>
            bus[i].nbytes >= 2 /\ bus[i].nbytes % 2 = 0

\* C5: the transactions of a run are Legacy-shaped ones followed by
\* Octal-shaped ones: the first transaction is Legacy-shaped, no
\* Legacy-shaped transaction is sent once an Octal-shaped one has been, every
\* transaction has one of the two shapes, and construction ends with
\* an Octal-shaped transaction sent.
C5_LegacyThenOctal ==
    [][/\ Issues => /\ LegacyShaped(Sent) \/ OctalShaped(Sent)
                    /\ LegacyShaped(Sent) => ~octal_seen
                    /\ (op.name = "new" /\ bus = <<>>) => LegacyShaped(Sent)
       /\ (pc' = "done" /\ op.name = "new") => octal_seen'
       /\ octal_seen => octal_seen']_vars

\* A public operation that polls has returned, after construction.
C5_Witness ==
    /\ pc = "done"
    /\ op.name = "erase_sector"
    /\ octal_seen
    /\ Len(bus) >= 3

EraseOps == {"erase_sector", "erase_block_64k", "erase_chip"}

IsStatusRead(tx) ==
    /\ tx.call = "blocking_read"
    /\ tx.cfg.iwidth = "OCTO"
    /\ tx.cfg.instruction = <<1530>>

\* C6: an erase hands the transport Octal Write-Enable (0x06F9), then the
\* erase command (Sector 0x21DE and Block 0xDC23 with the given 32-bit
\* address, Chip 0x609F without an address phase), then Status reads; every
\* Status read before the last reports WIP set, and the erase returns only
\* after one that reports WIP clear.
C6_EraseSequence ==
    op.name \in EraseOps =>
        /\ Len(bus) >= 1 =>
            /\ bus[1].call = "blocking_command"
            /\ bus[1].cfg.iwidth = "OCTO"
            /\ bus[1].cfg.instruction = <<1785>>
            /\ bus[1].cfg.adwidth = "NONE" /\ bus[1].cfg.address = <<>>
            /\ bus[1].cfg.dwidth = "NONE"
        /\ Len(bus) >= 2 =>
            /\ bus[2].call = "blocking_command"
            /\ bus[2].cfg.iwidth = "OCTO"
            /\ bus[2].cfg.dwidth = "NONE"
            /\ op.name = "erase_sector" =>
                /\ bus[2].cfg.instruction = <<8670>>
                /\ bus[2].cfg.address = <<op.addr>>
                /\ bus[2].cfg.adwidth = "OCTO" /\ bus[2].cfg.adsize = 32
            /\ op.name = "erase_block_64k" =>
                /\ bus[2].cfg.instruction = <<56355>>
                /\ bus[2].cfg.address = <<op.addr>>
                /\ bus[2].cfg.adwidth = "OCTO" /\ bus[2].cfg.adsize = 32
            /\ op.name = "erase_chip" =>
                /\ bus[2].cfg.instruction = <<24735>>
                /\ bus[2].cfg.address = <<>>
                /\ bus[2].cfg.adwidth = "NONE"
        /\ \A i \in 3..Len(bus) : IsStatusRead(bus[i])
        /\ \A i \in 1..(Len(bus) - 1) : bus[i].ok
        /\ \A i \in 3..(Len(bus) - 1) : bus[i].data[1] % 2 = 1
        /\ pc = "done" =>
            /\ Len(bus) >= 3
            /\ bus[Len(bus)].ok
            /\ bus[Len(bus)].data[1] % 2 = 0

\* A sector erase at a non-zero address has returned after two Status reads
\* that reported WIP set and one that reported it clear.
C6_Witness ==
    /\ pc = "done"
    /\ op.name = "erase_sector"
    /\ op.addr = U32(69637)
    /\ Len(bus) = 5

\* C7: on a device that stores the written register byte, write_cr2(addr, v)
\* followed by read_cr2(addr) returns v; the write sends v widened to the
\* two bytes v, 0 and returns only with WIP clear; the read asks for two
\* bytes and returns the first.
C7_Cr2RoundTrip ==
    /\ (pc = "done" /\ op.name = "read_cr2" /\ prev.name = "write_cr2"
        /\ prev.addr = op.addr) =>
            /\ ret = <<prev.value>>
            /\ bus[1].nbytes = 2
            /\ ret = <<bus[1].data[1]>>
    /\ (pc = "done" /\ op.name = "write_cr2") =>
            /\ bus[2].nbytes = 2
            /\ bus[2].data = <<op.value, 0>>
            /\ dev_wip = "idle"

\* read_cr2 has returned right after a write_cr2 of 0xA5 to the same
\* address, and the second byte of the read was not 0xA5.
C7_Witness ==
    /\ pc = "done"
    /\ op.name = "read_cr2"
    /\ prev.name = "write_cr2"
    /\ prev.addr = op.addr
    /\ prev.value = 165
    /\ bus[1].data[2] # 165

\* C8: when the transport fails a transaction, the operation stops there:
\* the driver panics with the transport's error, the failed transaction is
\* the last one it sends (no retry, nothing further), the device is left as
\* the transactions completed before had put it, and the panicked operation
\* never returns normally.
C8_FaultAborts ==
    [][/\ (Issues /\ ~Sent.ok) =>
            /\ pc' = "panicked" /\ panic' = "transport"
            /\ UNCHANGED device
       /\ Issues => \A i \in 1..Len(bus) : bus[i].ok
       /\ pc = "panicked" => (pc' = "panicked" /\ bus' = bus /\ panic' = panic)]_vars

\* The transport failed the second Page-Program of a write_memory whose
\* first Page-Program had completed.
C8_Witness ==
    /\ pc = "panicked"
    /\ panic = "transport"
    /\ op.name = "write_memory"
    /\ Len(Chunks) = 2
    /\ Chunks[1].ok
    /\ ~Chunks[2].ok
    /\ IsPageProgram(bus[Len(bus)])

\* (addr mod 256) + len > 256, in exact arithmetic.
CrossesPage(addr, len) == ~LeqU32(len, U32(MEMORY_PAGE_SIZE - addr.lo))

Driver ==
    \/ new
    \/ enable_write
    \/ erase_chip
    \/ perform_erase
    \/ wait_write_finish("wait_write_finish", AfterWait(op.name))
    \/ write_memory
    \/ write_page
    \/ page_program
    \/ write_memory_next
    \/ write_sr_cr
    \/ write_cr2

LiveSpec == Spec /\ WF_vars(Driver) /\ WF_vars(DeviceFinish)

PollingOps == EraseOps \cup {"write_memory", "write_sr_cr", "write_cr2"}

Polling == pc \in {"wait_write_finish", "new:wait_reset", "new:wait_cr2"}

\* C10: a polling loop is left, other than by a panic, exactly by a Status
\* read that reports WIP clear; while the device keeps WIP set the driver
\* stays in the loop and sends only Status reads; and if the device ends
\* every internal cycle, every erase, program and register write returns
\* (unless the transport fails it).
C10_PollUntilClear ==
    /\ [][/\ (Polling /\ pc' # pc /\ pc' # "panicked") =>
                /\ Issues /\ Sent.ok /\ Sent.data[1] % 2 = 0
                /\ dev_wip = "idle"
          /\ (Polling /\ Issues /\ Sent.ok /\ Sent.data[1] % 2 = 0) => pc' # pc
          /\ (Polling /\ Issues) =>
                /\ Sent.call = "blocking_read"
                /\ Sent.cfg.instruction \in {<<1530>>, <<5>>}
          /\ (Polling /\ dev_wip # "idle" /\ dev_wip' # "idle") =>
                pc' \in {pc, "panicked"}]_vars
    /\ (op.name \in PollingOps /\ pc \notin {"idle", "done", "panicked"})
          ~> (pc \in {"done", "panicked"} \/ dev_wip = "stuck")

\* A chip erase on a device that never clears WIP: the driver has polled as
\* often as the model lets it and is still in the loop.
C10_Witness ==
    /\ pc = "wait_write_finish"
    /\ op.name = "erase_chip"
    /\ dev_wip = "stuck"
    /\ polls = MaxPolls

(***************************************************************************)
(* Transaction shapes in Octal-DTR mode.                                   *)
(***************************************************************************)
HasAddress(tx) == tx.cfg.adwidth # "NONE"
CarriesData(tx) == tx.cfg.dwidth # "NONE"
IsReadId(tx) == OctalShaped(tx) /\ Instr(tx) = OpiCommand.ReadIdentification

\* C11: every Octal transaction has a 16-bit double-rate instruction phase,
\* an address phase (when it has one) that is 32 bits wide and double-rate,
\* and, when it carries data, a double-rate data phase, except for the
\* identification read of read_id, whose data phase is single-rate.
C11_DoubleRatePhases ==
    \A i \in 1..Len(bus) :
        OctalShaped(bus[i]) =>
            /\ bus[i].cfg.idtr
            /\ bus[i].cfg.isize = 16
            /\ HasAddress(bus[i]) =>
                  /\ bus[i].cfg.adwidth = "OCTO"
                  /\ bus[i].cfg.adsize = 32
                  /\ bus[i].cfg.addtr
                  /\ bus[i].cfg.address # <<>>
            /\ CarriesData(bus[i]) =>
                  /\ bus[i].cfg.dwidth = "OCTO"
                  /\ bus[i].cfg.ddtr <=> ~IsReadId(bus[i])
            /\ IsReadId(bus[i]) => (op.name = "read_id" /\ CarriesData(bus[i]))

\* read_id has returned four bytes read with a single-rate data phase.
C11_Witness ==
    /\ pc = "done"
    /\ op.name = "read_id"
    /\ Len(bus) = 1
    /\ bus[1].nbytes = 4
    /\ ~bus[1].cfg.ddtr
    /\ bus[1].cfg.idtr /\ bus[1].cfg.addtr

(***************************************************************************)
(* Memory-mapped mode.                                                     *)
(***************************************************************************)
MmOps == {"enable_mm", "disable_mm"}

\* The read template: opcode 0xEE11, 32-bit double-rate address, 20 dummy
\* cycles, all phases on eight lines.
WellFormedReadTemplate(t) ==
    /\ t.instruction = <<60945>>
    /\ t.iwidth = "OCTO" /\ t.isize = 16 /\ t.idtr
    /\ t.adwidth = "OCTO" /\ t.adsize = 32 /\ t.addtr
    /\ t.dwidth = "OCTO" /\ t.ddtr
    /\ t.dummy = 20

\* The write template: opcode 0x12ED, no dummy cycles.
WellFormedWriteTemplate(t) ==
    /\ t.instruction = <<4845>>
    /\ t.iwidth = "OCTO" /\ t.isize = 16 /\ t.idtr
    /\ t.adwidth = "OCTO" /\ t.adsize = 32 /\ t.addtr
    /\ t.dwidth = "OCTO" /\ t.ddtr
    /\ t.dummy = 0

\* C12: in any sequence of enable_mm and disable_mm calls, whatever the
\* mode was before the call: an enable_mm that returns has handed the
\* transport the two well-formed templates and leaves the mode on, a
\* disable_mm leaves it off with no templates, neither sends a bus
\* transaction, and neither touches the device.
C12_MemoryMapped ==
    [][/\ (pc = "enable_mm" /\ pc' = "done") =>
             /\ mm'.enabled
             /\ Len(mm'.read) = 1 /\ WellFormedReadTemplate(mm'.read[1])
             /\ Len(mm'.write) = 1 /\ WellFormedWriteTemplate(mm'.write[1])
       /\ (pc = "enable_mm" /\ pc' # "done") =>
             (pc' = "panicked" /\ mm' = mm)
       /\ pc = "disable_mm" =>
             (pc' = "done" /\ ~mm'.enabled /\ mm'.read = <<>> /\ mm'.write = <<>>)
       /\ (op.name \in MmOps /\ pc # "done") =>
             (bus = <<>> /\ bus' = <<>> /\ UNCHANGED device)
       /\ (pc = "done" /\ pc' = "idle" /\ op.name \in MmOps) =>
             (mm' = mm /\ mm.enabled = (op.name = "enable_mm"))
       /\ (mm.enabled /\ ~(op.name \in MmOps)) => mm' = mm]_vars

\* enable_mm has returned for the second time in a row.
C12_Witness ==
    /\ pc = "done"
    /\ op.name = "enable_mm"
    /\ prev.name = "enable_mm"
    /\ mm.enabled

(***************************************************************************)
(* The initialization sequence.                                            *)
(***************************************************************************)
IsLegacyCommand(tx, opcode) ==
    /\ tx.call = "blocking_command"
    /\ LegacyShaped(tx)
    /\ tx.cfg.instruction = <<opcode>>
    /\ ~HasAddress(tx) /\ ~CarriesData(tx)

IsLegacyStatusRead(tx) ==
    /\ tx.call = "blocking_read"
    /\ LegacyShaped(tx)
    /\ tx.cfg.instruction = <<5>>

IsLegacyCr2Access(tx, call, opcode) ==
    /\ tx.call = call
    /\ LegacyShaped(tx)
    /\ tx.cfg.instruction = <<opcode>>
    /\ tx.cfg.address = <<U32(0)>>

IsOctalCr2Read(tx) ==
    /\ tx.call = "blocking_read"
    /\ OctalShaped(tx)
    /\ tx.cfg.instruction = <<29070>>
    /\ tx.cfg.address = <<U32(0)>>

\* Number of Legacy Status reads in a row in the transaction list, from
\* position i on.
RECURSIVE StatusReadsFrom(_)
StatusReadsFrom(i) ==
    IF i <= Len(bus) /\ IsLegacyStatusRead(bus[i])
    THEN 1 + StatusReadsFrom(i + 1)
    ELSE 0

\* C13: the transactions of construction are, in this order and with
\* nothing else: Reset-Enable (0x66), Reset-Memory (0x99), Legacy Status
\* reads up to one with WIP clear, a Legacy read of Configuration-2 at
\* address 0 (0x71), Legacy Write-Enable (0x06), a Legacy write of
\* Configuration-2 at address 0 (0x72), an Octal-DTR read of Configuration-2
\* at address 0; and no public operation runs before they have been sent.
C13_InitSequence ==
    /\ op.name = "new" =>
        LET k == StatusReadsFrom(3)
            n == Len(bus)
        IN  /\ n >= 1 => IsLegacyCommand(bus[1], 102)
            /\ n >= 2 => IsLegacyCommand(bus[2], 153)
            /\ n >= 3 => k >= 1
            /\ \A i \in 3..(k + 1) : bus[i].ok /\ bus[i].data[1] % 2 = 1
            /\ n >= k + 3 =>
                  /\ bus[k + 2].ok /\ bus[k + 2].data[1] % 2 = 0
                  /\ IsLegacyCr2Access(bus[k + 3], "blocking_read", 113)
            /\ n >= k + 4 => IsLegacyCommand(bus[k + 4], 6)
            /\ n >= k + 5 => IsLegacyCr2Access(bus[k + 5], "blocking_write", 114)
            /\ n >= k + 6 => IsOctalCr2Read(bus[k + 6])
            /\ n <= k + 6
            /\ pc = "done" => (n = k + 6 /\ bus[n].ok)
    /\ op.name # "new" => (switched /\ octal_seen)
    /\ pc = "idle" => (switched /\ octal_seen)

(***************************************************************************)
(* Order of the transactions of write_memory.                              *)
(***************************************************************************)
IsOctalWriteEnable(tx) ==
    /\ tx.call = "blocking_command"
    /\ OctalShaped(tx)
    /\ tx.cfg.instruction = <<1785>>

\* A Status read that returned with the write-in-progress bit clear / set.
ReportsClear(tx) == IsStatusRead(tx) /\ tx.ok /\ tx.data[1] % 2 = 0
ReportsBusy(tx)  == IsStatusRead(tx) /\ tx.ok /\ tx.data[1] % 2 = 1

\* C14: the transactions of write_memory are, chunk after chunk,
\* Write-Enable, one Page-Program, Status reads: the first transaction is
\* a Write-Enable, every Write-Enable is followed directly by a
\* Page-Program and every Page-Program is preceded directly by a
\* Write-Enable, a Page-Program is followed by a Status read, a Status read
\* that reports WIP set is followed by a Status read, and a Write-Enable
\* other than the first directly follows a Status read that reported WIP
\* clear; write_memory returns only after such a Status read.
C14_ChunkProtocol ==
    op.name = "write_memory" =>
        /\ \A i \in 1..Len(bus) :
            /\ IsOctalWriteEnable(bus[i]) \/ IsPageProgram(bus[i]) \/ IsStatusRead(bus[i])
            /\ IsOctalWriteEnable(bus[i]) =>
                  /\ i > 1 => ReportsClear(bus[i - 1])
                  /\ i < Len(bus) => IsPageProgram(bus[i + 1])
            /\ IsPageProgram(bus[i]) =>
                  /\ i > 1 /\ IsOctalWriteEnable(bus[i - 1]) /\ bus[i - 1].ok
                  /\ i < Len(bus) => IsStatusRead(bus[i + 1])
            /\ IsStatusRead(bus[i]) =>
                  /\ i > 1
                  /\ IsPageProgram(bus[i - 1]) \/ ReportsBusy(bus[i - 1])
                  /\ (ReportsBusy(bus[i]) /\ i < Len(bus)) => IsStatusRead(bus[i + 1])
        /\ Len(bus) >= 1 => IsOctalWriteEnable(bus[1])
        /\ (pc = "done" /\ Len(op.buffer) > 0) => ReportsClear(bus[Len(bus)])
        /\ pc \in {"write_memory", "write_page", "enable_write"} =>
              (bus = <<>> \/ ReportsClear(bus[Len(bus)]))

\* write_memory has returned after three chunks, one of which was polled
\* twice while the device reported WIP set.
C14_Witness ==
    /\ pc = "done"
    /\ op.name = "write_memory"
    /\ Len(Chunks) = 3
    /\ \E i \in 2..(Len(bus) - 2) :
          /\ ReportsBusy(bus[i]) /\ ReportsBusy(bus[i + 1]) /\ ReportsClear(bus[i + 2])

(***************************************************************************)
(* Writes of protected registers.                                          *)
(***************************************************************************)
IsRegisterWrite(tx) ==
    /\ tx.call = "blocking_write"
    /\ \/ LegacyShaped(tx) /\ tx.cfg.instruction = <<114>>
       \/ OctalShaped(tx) /\ tx.cfg.instruction \in {<<29325>>, <<510>>}

\* A Status read in the bus mode of transaction `w`.
IsStatusReadLike(tx, w) ==
    IF LegacyShaped(w) THEN IsLegacyStatusRead(tx) ELSE IsStatusRead(tx)

\* A Write-Enable command in the bus mode of transaction `w`.
IsWriteEnableLike(tx, w) ==
    IF LegacyShaped(w) THEN IsLegacyCommand(tx, 6) ELSE IsOctalWriteEnable(tx)

RegisterWriteOps == {"write_cr2", "write_sr_cr"}

\* C15: every write of a protected register (the Legacy write of
\* Configuration-2 in construction, write_cr2, write_sr_cr) directly follows
\* a Write-Enable command of the same bus mode that the transport carried
\* out, and is followed by Status reads; nothing but Status reads follows
\* until one has returned with WIP clear, and the operation does not go on
\* or return before that.
C15_ProtectedWrite ==
    /\ \A i \in 1..Len(bus) :
        IsRegisterWrite(bus[i]) =>
            /\ i > 1
            /\ IsWriteEnableLike(bus[i - 1], bus[i])
            /\ bus[i - 1].ok
            /\ i < Len(bus) => IsStatusReadLike(bus[i + 1], bus[i])
            /\ \A j \in (i + 2)..Len(bus) :
                  \/ IsStatusReadLike(bus[j], bus[i])
                        /\ bus[j - 1].ok /\ bus[j - 1].data[1] % 2 = 1
                  \/ ~IsStatusReadLike(bus[j], bus[i])
                        /\ IsStatusReadLike(bus[j - 1], bus[i])
                        /\ bus[j - 1].ok /\ bus[j - 1].data[1] % 2 = 0
            /\ (pc = "done" /\ op.name \in RegisterWriteOps) =>
                  /\ i < Len(bus)
                  /\ bus[Len(bus)].ok /\ bus[Len(bus)].data[1] % 2 = 0
    /\ (pc = "done" /\ op.name \in RegisterWriteOps \cup {"new"}) =>
          \E i \in 1..Len(bus) : IsRegisterWrite(bus[i])
    /\ (op.name = "new" /\ pc \in {"new:read_cr2", "new:return", "done"}) =>
          \E i \in 2..Len(bus) :
              /\ IsRegisterWrite(bus[i - 1]) \/ IsLegacyStatusRead(bus[i - 1])
              /\ IsLegacyStatusRead(bus[i])
              /\ bus[i].ok /\ bus[i].data[1] % 2 = 0
              /\ \E w \in 1..(i - 1) :
                    /\ IsRegisterWrite(bus[w])
                    /\ \A j \in (w + 1)..i : IsLegacyStatusRead(bus[j])

\* write_sr_cr has returned after a Status read that reported WIP set.
C15_Witness ==
    /\ pc = "done"
    /\ op.name = "write_sr_cr"
    /\ Len(bus) >= 4
    /\ IsRegisterWrite(bus[2])
    /\ ReportsBusy(bus[3])

(***************************************************************************)
(* The value written by the mode switch.                                   *)
(***************************************************************************)
\* Bit b of the byte v.
Bit(v, b) == (v \div (2 ^ b)) % 2

\* C16: the byte that construction writes to Configuration-2 at address 0
\* is the byte it read from that register just before (two transactions
\* earlier, the Write-Enable lying between) with bit 1 set: bit 1 of the
\* written byte is 1 and every other bit equals the bit read.
C16_SetsOnlyBit1 ==
    op.name = "new" =>
        \A i \in 1..Len(bus) :
            IsRegisterWrite(bus[i]) =>
                /\ i > 2
                /\ IsLegacyCr2Access(bus[i], "blocking_write", 114)
                /\ IsLegacyCr2Access(bus[i - 2], "blocking_read", 113)
                /\ bus[i - 2].ok
                /\ bus[i].nbytes = 1 /\ Len(bus[i].data) = 1
                /\ Bit(bus[i].data[1], 1) = 1
                /\ \A b \in (0..7) \ {1} :
                      Bit(bus[i].data[1], b) = Bit(bus[i - 2].data[1], b)

\* Construction has written 0xA7 after reading 0xA5.
C16_Witness ==
    /\ op.name = "new"
    /\ pc = "done"
    /\ \E i \in 3..Len(bus) :
          /\ IsRegisterWrite(bus[i])
          /\ bus[i - 2].data = <<165>>
          /\ bus[i].data = <<167>>

(***************************************************************************)
(* The end of construction.                                                *)
(***************************************************************************)
\* Numbers of Octal-DTR reads and of writes of Configuration-2 among the
\* transactions of the current operation.
CountOctalCr2Reads == Len(SelectSeq(bus, IsOctalCr2Read))
CountRegisterWrites == Len(SelectSeq(bus, IsRegisterWrite))

\* C17: whatever byte the Octal-DTR read of Configuration-2 returns,
\* construction goes on to its return without a panic and without another
\* transaction: the read is its last transaction, there has been one such
\* read and one write of the register (no retry), and the handle is given
\* to the application, which can call operations on it.
C17_MismatchNotFatal ==
    [][/\ (pc = "new:read_cr2" /\ Issues /\ Sent.ok) =>
             (pc' = "new:return" /\ panic' = "none")
       /\ pc = "new:return" =>
             (pc' \in {"new:return", "done"} /\ bus' = bus /\ panic' = "none")
       /\ (op.name = "new" /\ pc \in {"new:return", "done"}) =>
             /\ IsOctalCr2Read(bus[Len(bus)])
             /\ CountOctalCr2Reads = 1
             /\ CountRegisterWrites = 1
             /\ ~Issues
       /\ (op.name = "new" /\ pc = "done" /\ pc' # pc) =>
             (pc' = "idle" /\ panic' = "none")
       /\ pc = "idle" => ENABLED Call]_vars

\* Construction has returned although the byte read back has bit 1 clear.
C17_Witness ==
    /\ op.name = "new"
    /\ pc = "done"
    /\ panic = "none"
    /\ Bit(bus[Len(bus)].data[1], 1) = 0

(***************************************************************************)
(* The data of the chunks of write_memory.                                 *)
(***************************************************************************)
\* Bytes carried by the chunks before the i-th.
ChunkOffset(i) == SumLen(SubSeq(Chunks, 1, i - 1))

RECURSIVE ConcatData(_)
ConcatData(txs) ==
    IF txs = <<>> THEN <<>> ELSE Head(txs).data \o ConcatData(Tail(txs))

\* Every chunk carries the slice of the input buffer that starts at offset
\* (chunk address - start address) and has the chunk's length, the length
\* being min(256 - (address mod 256), bytes left); when write_memory has
\* run to its end the payloads, in issue order, make up the input buffer.
ChunkData ==
    /\ \A i \in 1..Len(Chunks) :
        LET c   == Chunks[i]
            off == ChunkOffset(i)
            at  == AddU32(op.addr, U32(off))
        IN  /\ ~at.over /\ at.sum = ChunkAddr(c)
            /\ c.nbytes = Len(c.data)
            /\ c.nbytes = Min(MEMORY_PAGE_SIZE - ChunkAddr(c).lo, Len(op.buffer) - off)
            /\ c.data = SubSeq(op.buffer, off + 1, off + c.nbytes)
    /\ WriteMemoryEnded => ConcatData(Chunks) = op.buffer

\* C18 as stated: for every start address and length.
C18_AsStated == op.name = "write_memory" => ChunkData

\* C18, amended: the same for every start address a and length n with
\* a + n <= 2^32.
C18_ChunkData ==
    (op.name = "write_memory" /\ InAddressSpace(op.addr, Len(op.buffer))) =>
        ChunkData

\* write_memory of 513 bytes at 0xF0 has returned: 16 bytes, a full page,
\* 241 bytes, the second chunk starting with the 17th byte of the buffer.
C18_Witness ==
    /\ pc = "done"
    /\ op.name = "write_memory"
    /\ op.addr = U32(240)
    /\ Len(op.buffer) = MaxLen
    /\ Len(Chunks) = 3
    /\ Chunks[1].nbytes = 16
    /\ Chunks[2].nbytes = MEMORY_PAGE_SIZE
    /\ Chunks[2].data[1] = PatternByte(17)
    /\ Chunks[3].nbytes = MaxLen - 16 - MEMORY_PAGE_SIZE

(***************************************************************************)
(* Read-only operations.                                                   *)
(***************************************************************************)
ReadOnlyOps == {"read_memory", "read_id", "read_sr", "read_cr", "read_cr2"}

\* The opcode of the one transaction of a read-only operation.
ReadOpcode(name) ==
    CASE name = "read_memory" -> 60945     \* 0xEE11
      [] name = "read_id"     -> 40800     \* 0x9F60
      [] name = "read_sr"     -> 1530      \* 0x05FA
      [] name = "read_cr"     -> 5610      \* 0x15EA
      [] name = "read_cr2"    -> 29070     \* 0x718E

\* C19: a read-only operation (read_memory, read_id, read_sr, read_cr,
\* read_cr2) hands the transport one transaction, a read with the
\* operation's opcode, and nothing else: no Write-Enable, program, erase
\* or second Status read; it has returned or panicked once that
\* transaction is sent.  read_memory's transaction has opcode 0xEE11, the
\* given address, 20 dummy cycles and the whole requested length, whatever
\* page boundaries the range crosses.
C19_SingleRead ==
    op.name \in ReadOnlyOps =>
        /\ Len(bus) <= 1
        /\ Len(bus) = 1 <=> pc \in {"done", "panicked"}
        /\ Len(bus) = 1 =>
              /\ bus[1].call = "blocking_read"
              /\ OctalShaped(bus[1])
              /\ bus[1].cfg.instruction = <<ReadOpcode(op.name)>>
              /\ bus[1].ok <=> pc = "done"
              /\ op.name = "read_memory" =>
                    /\ bus[1].cfg.address = <<op.addr>>
                    /\ bus[1].cfg.dummy = 20
                    /\ bus[1].nbytes = op.value
              /\ op.name = "read_cr2" => bus[1].cfg.address = <<op.addr>>

\* read_memory of 513 bytes at 0x11005, a range over three pages, has
\* returned.
C19_Witness ==
    /\ pc = "done"
    /\ op.name = "read_memory"
    /\ op.addr = U32(69637)
    /\ Len(bus) = 1
    /\ bus[1].nbytes = MaxLen
    /\ Len(ret) = MaxLen

(***************************************************************************)
(* The driver and a busy device.                                           *)
(***************************************************************************)
IsAnyStatusRead(tx) == IsStatusRead(tx) \/ IsLegacyStatusRead(tx)

\* C20: on a device that is at rest when the driver is constructed, sets
\* WIP on reset, register write, program and erase and clears it later (or
\* never): every transaction the driver sends while WIP is set is a Status
\* read, and the device is at rest whenever the driver is between
\* operations or an operation has returned.
C20_OnlyStatusWhileBusy ==
    [][/\ (Issues /\ dev_wip # "idle") => IsAnyStatusRead(Sent)
       /\ pc \in {"idle", "done"} => dev_wip = "idle"
       /\ (pc # "done" /\ pc' = "done") => dev_wip' = "idle"]_vars

\* A block erase has returned, after a Status read that reported WIP set,
\* with the device at rest.
C20_Witness ==
    /\ pc = "done"
    /\ op.name = "erase_block_64k"
    /\ Len(bus) >= 4
    /\ ReportsBusy(bus[3])
    /\ dev_wip = "idle"

(***************************************************************************)
(* The running address of write_memory.                                    *)
(***************************************************************************)
\* The u32 address x lies in [a, a + n), in exact arithmetic.
InRange(x, a, n) ==
    \E off \in 0..(n - 1) :
        LET at == AddU32(a, U32(off))
        IN  ~at.over /\ at.sum = x

\* Every Page-Program address lies in [a, a+n) when a + n <= 2^32.
ChunkAddressesInRange ==
    (op.name = "write_memory" /\ InAddressSpace(op.addr, Len(op.buffer))) =>
        \A i \in 1..Len(Chunks) :
            InRange(ChunkAddr(Chunks[i]), op.addr, Len(op.buffer))

\* C21: for every start address a and length n with a + n <= 2^32, the
\* addition that moves write_memory's running address on never overflows
\* (no panic, no wrap), and every Page-Program address lies in [a, a+n).
C21_NoOverflow ==
    /\ (op.name = "write_memory" /\ InAddressSpace(op.addr, Len(op.buffer))) =>
          /\ pc = "write_memory_next" => ~Advance(wm.place, wm.chunk_size).over
          /\ panic # "overflow"
    /\ ChunkAddressesInRange

(***************************************************************************)
(* The number of chunks of write_memory.                                   *)
(***************************************************************************)
\* Number of 256-byte pages that intersect [a, a + n).
PagesTouched(a, n) ==
    IF n = 0 THEN 0 ELSE ((a.lo + n - 1) \div MEMORY_PAGE_SIZE) + 1

\* One Page-Program per page touched, in page order; every chunk but the
\* first starts at a page boundary and every chunk but the last ends at
\* one; nothing at all is sent for an empty buffer.
OneChunkPerPage ==
    LET n     == Len(op.buffer)
        pages == PagesTouched(op.addr, n)
    IN  /\ Len(Chunks) <= pages
        /\ WriteMemoryEnded => Len(Chunks) = pages
        /\ \A i \in 1..Len(Chunks) :
              /\ ChunkAddr(Chunks[i]).hi = op.addr.hi + (i - 1)
              /\ i > 1 => ChunkAddr(Chunks[i]).lo = 0
              /\ i < pages =>
                    ChunkAddr(Chunks[i]).lo + Chunks[i].nbytes = MEMORY_PAGE_SIZE
        /\ n = 0 => bus = <<>>

\* C22 as stated: for every start address and length.
C22_AsStated == op.name = "write_memory" => OneChunkPerPage

\* C22, amended: the same for every start address a and length n with
\* a + n <= 2^32.
C22_OneChunkPerPage ==
    (op.name = "write_memory" /\ InAddressSpace(op.addr, Len(op.buffer))) =>
        OneChunkPerPage

\* write_memory of 513 bytes at 0x1FF has returned: three pages touched,
\* three chunks of 1, 256 and 256 bytes.
C22_Witness ==
    /\ pc = "done"
    /\ op.name = "write_memory"
    /\ op.addr = U32(511)
    /\ Len(op.buffer) = MaxLen
    /\ PagesTouched(op.addr, Len(op.buffer)) = 3
    /\ Len(Chunks) = 3
    /\ Chunks[1].nbytes = 1
    /\ ChunkAddr(Chunks[2]) = U32(512)

=============================================================================
